---- MODULE Spec2Model ----
(***************************************************************************)
(* Execution lifecycle and flow interpreter of the web-platform backend.   *)
(*                                                                         *)
(*   app/workers/flow_executor.py     BFS interpreter of a flow graph      *)
(*   app/workers/crew_executor.py     status writes, crew run, cancel task *)
(*   app/services/execution_service.py  cancel / human feedback services   *)
(*   app/core/websocket.py            event publication and delivery       *)
(*   app/api/v1/endpoints/websocket.py  the websocket observers and the    *)
(*                                    crew streaming socket                *)
(*   app/services/trigger_service.py  webhook-created executions           *)
(*   app/utils/rate_limit.py          the sliding-window rate limiter      *)
(*                                                                         *)
(* One Execution record is modelled.  The worker (Celery process) and the  *)
(* API requests run in different processes: every database write and every *)
(* published event is a separate step, and steps of different processes    *)
(* interleave freely.                                                      *)
(***************************************************************************)
EXTENDS Integers, Sequences, FiniteSets, TLC

(***************************************************************************)
(* Bounds of the model.                                                    *)
(***************************************************************************)
\* number of client requests (cancel, feedback, cancel task) per behaviour
MaxRequests == 2
\* number of connections of a generated flow graph (GraphSpec)
MaxConnections == 3
\* number of (condition, route) pairs of a generated router (RouterSpec)
MaxConditions == 2
\* number of websocket clients observing the execution (BroadcastSpec)
MaxObservers == 2
\* number of client messages on the crew streaming websocket (SocketSpec)
MaxMessages == 2
\* number of is_rate_limited calls for the key, and the last clock value (RateSpec)
MaxChecks == 3
MaxTime == 3

(***************************************************************************)
(* ExecutionStatus (models/execution.py).                                  *)
(***************************************************************************)
PENDING == "pending"
RUNNING == "running"
COMPLETED == "completed"
FAILED == "failed"
CANCELLED == "cancelled"
WAITING_HUMAN == "waiting_human"

ExecutionStatus == {PENDING, RUNNING, COMPLETED, FAILED, CANCELLED, WAITING_HUMAN}

TerminalStatus == {COMPLETED, FAILED, CANCELLED}

(***************************************************************************)
(* Python values.  None and a missing dict key are distinct markers; a     *)
(* dict is a function whose DOMAIN is its key set.                         *)
(***************************************************************************)
None == "<None>"
Absent == "<absent>"

EmptyDict == [k \in {} |-> 0]

\* variant: on a key of both dicts the value of the first one is kept
MergeKeepFirst(a, b) ==
    [k \in (DOMAIN a) \cup (DOMAIN b) |-> IF k \in DOMAIN a THEN a[k] ELSE b[k]]

\* {**a, **b} and dict.update
Merge(a, b) ==
    [k \in (DOMAIN a) \cup (DOMAIN b) |-> IF k \in DOMAIN b THEN b[k] ELSE a[k]]

\* truthiness of a string-or-None value
Truthy(v) == v \notin {None, Absent, ""}

\* variant: the flag is looked up under another key
AwaitingHumanFeedbackWrongKey(st) ==
    "awaiting_feedback" \in DOMAIN st /\ st["awaiting_feedback"] = TRUE

\* state.get("awaiting_human_feedback")
AwaitingHumanFeedback(st) ==
    "awaiting_human_feedback" \in DOMAIN st /\ st["awaiting_human_feedback"] = TRUE

(***************************************************************************)
(* eval(expr, {"state": state, "__builtins__": {}}) for the expressions    *)
(* used in the flows below: "truthy", "falsy" or "raise".                  *)
(***************************************************************************)
Expressions ==
    {"True", "False", "state['x'] > 5", "state.get('x', 0) > 5", "1/0", ""}

Eval(expr, st) ==
    CASE expr = "True" -> "truthy"
      [] expr = "False" -> "falsy"
      [] expr = "state['x'] > 5" ->
            IF "x" \in DOMAIN st
            THEN (IF st["x"] > 5 THEN "truthy" ELSE "falsy")
            ELSE "raise"                       \* KeyError
      [] expr = "state.get('x', 0) > 5" ->
            IF "x" \in DOMAIN st /\ st["x"] > 5 THEN "truthy" ELSE "falsy"
      [] expr = "1/0" -> "raise"               \* ZeroDivisionError
      [] OTHER -> "raise"                      \* SyntaxError (empty text)

(***************************************************************************)
(* Flow definitions: steps and connections as the database rows.           *)
(***************************************************************************)
StepTypes == {"start", "end", "crew", "function", "router", "listen", "human_feedback"}

Step(id, type) ==
    [id |-> id, type |-> type, crew_id |-> None, code |-> "",
     conditions |-> << >>, routes |-> << >>]

CrewStep(id) == [Step(id, "crew") EXCEPT !.crew_id = id]

FunctionStep(id, code) == [Step(id, "function") EXCEPT !.code = code]

RouterStep(id, conditions, routes) ==
    [Step(id, "router") EXCEPT !.conditions = conditions, !.routes = routes]

Conn(source, target) ==
    [source |-> source, target |-> target, type |-> "normal",
     condition |-> None, route_name |-> None]

CondConn(source, target, condition) ==
    [Conn(source, target) EXCEPT !.type = "conditional", !.condition = condition]

RouteConn(source, target, route) ==
    [Conn(source, target) EXCEPT !.route_name = route]

AndConn(source, target) == [Conn(source, target) EXCEPT !.type = "and"]

\* the values of a sequence
Range(s) == {s[i] : i \in 1..Len(s)}

(***************************************************************************)
(* _get_flow_config: the step map and the adjacency list.                  *)
(***************************************************************************)
StepIds(f) == {f.steps[i].id : i \in 1..Len(f.steps)}

\* steps.get(step_id), for an id of StepIds(f)
GetStep(f, id) == f.steps[CHOOSE i \in 1..Len(f.steps) : f.steps[i].id = id]

ConnectionsOf(f) ==
    [s \in {f.connections[i].source : i \in 1..Len(f.connections)} |->
        LET sel(c) == c.source = s IN SelectSeq(f.connections, sel)]

(***************************************************************************)
(* _find_start_step: the first step of type start, or None.                *)
(***************************************************************************)
FindStartStep(f) ==
    IF \E i \in 1..Len(f.steps) : f.steps[i].type = "start"
    THEN f.steps[CHOOSE i \in 1..Len(f.steps) :
                    /\ f.steps[i].type = "start"
                    /\ \A j \in 1..(i-1) : f.steps[j].type # "start"].id
    ELSE None

(***************************************************************************)
(* _get_next_steps.                                                        *)
(***************************************************************************)
\* variant: a condition that raises counts as taken
CondTakenUnlessFalsy(expr, st) == Eval(expr, st) # "falsy"

\* try: if eval(conn["condition"], ...): next_steps.append(...) / except: pass
CondTaken(expr, st) == Eval(expr, st) = "truthy"

\* variant: a route-named connection is taken whatever the chosen route is
RECURSIVE NextOfConnsAnyRoute(_, _, _)
NextOfConnsAnyRoute(conns, st, route) ==
    IF conns = << >> THEN << >>
    ELSE LET conn == Head(conns)
             rest == NextOfConnsAnyRoute(Tail(conns), st, route)
         IN IF Truthy(route) /\ Truthy(conn.route_name)
            THEN <<conn.target>> \o rest
            ELSE IF Truthy(conn.condition)
            THEN (IF CondTaken(conn.condition, st)
                  THEN <<conn.target>> \o rest ELSE rest)
            ELSE <<conn.target>> \o rest

RECURSIVE NextOfConns(_, _, _)
NextOfConns(conns, st, route) ==
    IF conns = << >> THEN << >>
    ELSE LET conn == Head(conns)
             rest == NextOfConns(Tail(conns), st, route)
         IN IF Truthy(route) /\ Truthy(conn.route_name)
            THEN (IF conn.route_name = route THEN <<conn.target>> \o rest ELSE rest)
            ELSE IF Truthy(conn.condition)
            THEN (IF CondTaken(conn.condition, st)
                  THEN <<conn.target>> \o rest ELSE rest)
            ELSE <<conn.target>> \o rest

GetNextSteps(current_step_id, connections, st, route) ==
    IF current_step_id \notin DOMAIN connections THEN << >>
    ELSE NextOfConns(connections[current_step_id], st, route)

(***************************************************************************)
(* Router step of _execute_step: the selected route name.                  *)
(***************************************************************************)
\* condition.get("condition", "False")
CondExpr(c) == IF c.condition = Absent THEN "False" ELSE c.condition

\* condition.get("route", routes[i] if i < len(routes) else None)
CondRoute(c, i, routes) ==
    IF c.route # Absent THEN c.route
    ELSE IF i <= Len(routes) THEN routes[i] ELSE None

\* variant: the loop has no break, the last truthy condition wins
RECURSIVE RouterScanNoBreak(_, _, _, _)
RouterScanNoBreak(conditions, routes, st, i) ==
    IF i > Len(conditions) THEN None
    ELSE LET later == RouterScanNoBreak(conditions, routes, st, i + 1)
         IN IF later # None THEN later
            ELSE IF Eval(CondExpr(conditions[i]), st) = "truthy"
                 THEN CondRoute(conditions[i], i, routes)
                 ELSE None

RECURSIVE RouterScan(_, _, _, _)
RouterScan(conditions, routes, st, i) ==
    IF i > Len(conditions) THEN None
    ELSE IF Eval(CondExpr(conditions[i]), st) = "truthy"
         THEN CondRoute(conditions[i], i, routes)
         ELSE RouterScan(conditions, routes, st, i + 1)

RouterSelect(conditions, routes, st) ==
    LET r == RouterScan(conditions, routes, st, 1)
    IN IF ~Truthy(r) /\ routes # << >> THEN routes[Len(routes)] ELSE r

(***************************************************************************)
(* Function step of _execute_step: the behaviours of the user code.        *)
(*   ""            no code configured                                      *)
(*   "ret_x10"     def execute(state): return {'x': 10}                    *)
(*   "raise"       def execute(state): raise ValueError('boom')            *)
(*   "raise_empty" def execute(state): raise ValueError()                  *)
(*   "mutate"      def execute(state): state['x'] = 99                     *)
(*   "ret_flag"    def execute(state):                                     *)
(*                     return {'awaiting_human_feedback': True}            *)
(* UserFunction is the call local_vars[function_name](arg): whether it     *)
(* raised, str(e), the argument object after the call, and the returned    *)
(* value (isdict: it is a dict).                                           *)
(***************************************************************************)
FunctionCodes == {"", "ret_x10", "raise", "raise_empty", "mutate", "ret_flag"}

UserFunction(code, arg) ==
    LET result(raised, error, after, isdict, ret) ==
            [raised |-> raised, error |-> error, arg |-> after,
             isdict |-> isdict, ret |-> ret]
    IN CASE code = "ret_x10" ->
                result(FALSE, << >>, arg, TRUE, [k \in {"x"} |-> 10])
         [] code = "raise" ->
                result(TRUE, <<"boom">>, arg, FALSE, EmptyDict)
         [] code = "raise_empty" ->
                result(TRUE, << >>, arg, FALSE, EmptyDict)
         [] code = "mutate" ->
                result(FALSE, << >>, Merge(arg, [k \in {"x"} |-> 99]), FALSE, EmptyDict)
         [] code = "ret_flag" ->
                result(FALSE, << >>, arg, TRUE,
                       [k \in {"awaiting_human_feedback"} |-> TRUE])
         [] OTHER ->
                result(FALSE, << >>, arg, FALSE, EmptyDict)

\* result = local_vars[function_name](state): the function is called with the
\* state dict itself (the copy stays in local_vars), then
\* if isinstance(result, dict): state.update(result).
\* The result is [raised, error, state].
RunFunction(code, st) ==
    LET r == UserFunction(code, st)
    IN [raised |-> r.raised, error |-> r.error,
        state |-> IF ~r.raised /\ r.isdict THEN Merge(r.arg, r.ret) ELSE r.arg]

(***************************************************************************)
(* The flows that are run under Spec.                                      *)
(***************************************************************************)
Flow(steps, connections) == [steps |-> steps, connections |-> connections]

\* start -> end
FlowSimple ==
    Flow(<<Step("start", "start"), Step("end", "end")>>,
         <<Conn("start", "end")>>)

\* a start step alone
FlowStartOnly == Flow(<<Step("start", "start")>>, << >>)

\* start -> fn -> end
FlowFunction(code) ==
    Flow(<<Step("start", "start"), FunctionStep("fn", code), Step("end", "end")>>,
         <<Conn("start", "fn"), Conn("fn", "end")>>)

\* start -> {review, side}, review -> end, side -> end:
\* review (human_feedback) and side are in the same BFS level
FlowHuman ==
    Flow(<<Step("start", "start"), Step("review", "human_feedback"),
           Step("side", "listen"), Step("end", "end")>>,
         <<Conn("start", "review"), Conn("start", "side"),
           Conn("review", "end"), Conn("side", "end")>>)

\* start -> router -(high)-> crewA -> end, router -(low)-> crewB -> end
FlowRouter(conditions, routes) ==
    Flow(<<Step("start", "start"), RouterStep("router", conditions, routes),
           CrewStep("crewA"), CrewStep("crewB"), Step("end", "end")>>,
         <<Conn("start", "router"),
           RouteConn("router", "crewA", "high"), RouteConn("router", "crewB", "low"),
           Conn("crewA", "end"), Conn("crewB", "end")>>)

Cond(expr, route) == [condition |-> expr, route |-> route]

\* the router of the end-to-end scenario: x > 5 -> high, default low
ScenarioRouter == FlowRouter(<<Cond("state['x'] > 5", "high")>>, <<"high", "low">>)

\* a router without default route
NoDefaultRouter == FlowRouter(<<Cond("state['x'] > 5", "high")>>, << >>)

\* start -(e1)-> a, start -(e2)-> b, a -> end, b -> end: conditional connections
FlowCond(e1, e2) ==
    Flow(<<Step("start", "start"), Step("a", "listen"), Step("b", "listen"),
           Step("end", "end")>>,
         <<CondConn("start", "a", e1), CondConn("start", "b", e2),
           Conn("a", "end"), Conn("b", "end")>>)

\* start -> crewA -> crewB -> end: two crew steps in a row
FlowTwoCrews ==
    Flow(<<Step("start", "start"), CrewStep("crewA"), CrewStep("crewB"),
           Step("end", "end")>>,
         <<Conn("start", "crewA"), Conn("crewA", "crewB"), Conn("crewB", "end")>>)

\* a flow without start step: a -> end
FlowNoStart ==
    Flow(<<Step("a", "listen"), Step("end", "end")>>, <<Conn("a", "end")>>)

\* start -> a -(and)-> join, start -> b -> c -(and)-> join, join -> end:
\* a join of two branches of different lengths
FlowJoin ==
    Flow(<<Step("start", "start"), Step("a", "listen"), Step("b", "listen"),
           Step("c", "listen"), Step("join", "listen"), Step("end", "end")>>,
         <<Conn("start", "a"), Conn("start", "b"), AndConn("a", "join"),
           Conn("b", "c"), AndConn("c", "join"), Conn("join", "end")>>)

Flows ==
    {FlowSimple, FlowHuman, ScenarioRouter, NoDefaultRouter}
        \cup {FlowFunction(c) : c \in {"ret_x10", "raise", "raise_empty"}}

\* the inputs of a kickoff request
InputSet == {EmptyDict, [k \in {"x"} |-> 1], [k \in {"x"} |-> 10]}

\* the initial_state of a kickoff request
InitialStateSet == {EmptyDict}

(***************************************************************************)
(* State.                                                                  *)
(***************************************************************************)
VARIABLES
    flow,             \* the Flow row with its steps and connections
    inputs,           \* inputs of the kickoff request
    initial_state,    \* initial_state of the kickoff request
    execution,        \* the Execution row: status, started_at, completed_at, error, outputs
    now,              \* datetime.utcnow(): a logical clock
    pc,               \* position of the worker in _execute_flow_async
    current_step_ids, \* the part of the BFS level not yet iterated
    next_step_ids,
    visited,
    step_count,
    state,            \* the flow state dict
    route_name,
    step_id,          \* the step being executed
    exc,              \* str(e) of the exception being propagated
    events,           \* events published by broadcast_execution_event, in order
    requests,         \* number of client requests made
    cancelPc,         \* execution_service.cancel_execution in flight
    cancelLog,        \* returns of cancel_execution: [caller, seen, ok]
    feedbackPc,       \* execution_service.submit_human_feedback in flight
    feedbackLog,      \* returns of submit_human_feedback: [caller, seen, result]
    observers,        \* the websocket clients of websocket_execution
    active_key,       \* execution_id in manager.active_connections (publishing process)
    delivered,        \* number of events for which broadcast_execution_event has returned
    bc,               \* position of the publisher inside broadcast_execution_event
    sock,             \* the handler of websocket_crew_kickoff and what its client has seen
    rl                \* RateLimiter.is_rate_limited: the sorted set of one key and its callers

vars == <<flow, inputs, initial_state, execution, now, pc, current_step_ids, next_step_ids, visited,
          step_count, state, route_name, step_id, exc, events, requests,
          cancelPc, cancelLog, feedbackPc, feedbackLog,
          observers, active_key, delivered, bc, sock, rl>>

wsVars == <<observers, active_key, delivered, bc, sock, rl>>

workerVars == <<pc, current_step_ids, next_step_ids, visited, step_count, state,
                route_name, step_id, exc>>

clientVars == <<requests, cancelPc, cancelLog, feedbackPc, feedbackLog>>

status == execution.status

Event(type, step, message) == [type |-> type, step |-> step, message |-> message]

\* broadcast_execution_event: the event is appended to the published stream
Broadcast(evs, type, step, message) == Append(evs, Event(type, step, message))

\* the step ids for which step_start was published, in order
Executed ==
    LET isStart(e) == e.type = "step_start"
        starts == SelectSeq(events, isStart)
    IN [i \in 1..Len(starts) |-> starts[i].step]

(***************************************************************************)
(* _update_execution_status: UPDATE executions SET ... WHERE id = :id.     *)
(***************************************************************************)
UpdateExecutionStatus(ex, newStatus, error, outputs, t) ==
    LET a == [ex EXCEPT !.status = newStatus]
        b == IF newStatus = RUNNING THEN [a EXCEPT !.started_at = t]
             ELSE IF newStatus \in {COMPLETED, FAILED, CANCELLED}
                  THEN [a EXCEPT !.completed_at = t]
                  ELSE a
        c == IF error # << >> THEN [b EXCEPT !.error = error] ELSE b
    IN IF DOMAIN outputs # {} THEN [c EXCEPT !.outputs = outputs] ELSE c

(***************************************************************************)
(* ConnectionManager (core/websocket.py) and the websocket clients.        *)
(*   st          position of the websocket_execution handler               *)
(*   local       the handler runs in the process that publishes the events *)
(*   registered  the socket is in manager.active_connections[execution_id] *)
(*               of the publishing process                                 *)
(*   broken      the client went away: send_json raises                    *)
(*   queue       messages of the pub/sub channel not yet forwarded         *)
(*   last        the message that send_json delivered last, named by the   *)
(*               index of its event in the published stream (0: the        *)
(*               connected confirmation)                                   *)
(*   copies      how many times in a row that message has been delivered   *)
(***************************************************************************)
ObserverIds == 1..MaxObservers

NoObserver ==
    [st |-> "none", local |-> FALSE, registered |-> FALSE, broken |-> FALSE,
     queue |-> << >>, last |-> 0, copies |-> 0]

\* websocket.send_json succeeded: one more delivery, of message k
Delivered(ob, k) ==
    [ob EXCEPT !.last = k, !.copies = IF k = ob.last THEN ob.copies + 1 ELSE 1]

\* the sockets of manager.active_connections[execution_id]
Registered(obs) == {o \in ObserverIds : obs[o].registered}

\* the publisher is outside broadcast_execution_event
BcIdle == [pc |-> "idle", size |-> 0, seen |-> {}, disconnected |-> {}, stale |-> FALSE]

(***************************************************************************)
(* websocket_crew_kickoff: the handler of one crew streaming socket.       *)
(*   st        "none" before accept, "receive" in receive_json,            *)
(*             "dispatched" after execute_crew.delay, "subscribed" inside  *)
(*             subscribe_to_execution, "cancelling" inside                 *)
(*             cancel_execution                                            *)
(*   queue     messages of the pub/sub channel not yet forwarded           *)
(*   received  the events sent to the client, by their index in the        *)
(*             published stream                                            *)
(*   answers   the other messages sent to the client, by type              *)
(*   messages  number of messages the client has sent                      *)
(*   caller, seen   the user of the token and the status that              *)
(*             cancel_execution has read                                   *)
(***************************************************************************)
NoSock ==
    [st |-> "none", queue |-> << >>, received |-> << >>, answers |-> << >>,
     messages |-> 0, caller |-> None, seen |-> None]

(***************************************************************************)
(* RateLimiter.is_rate_limited for one key: the Redis sorted set           *)
(* rate_limit:{key} and the calls in flight.                               *)
(*   limit, window  the arguments, the same for every call of the key      *)
(*   time      time.time()                                                 *)
(*   zset      the scores of the sorted set; the member of a score is its  *)
(*             text, so equal scores are one member                        *)
(*   admitted  the timestamps of the calls that returned not limited       *)
(*   checks    number of calls made                                        *)
(*   proc      per concurrent caller: position, its `now`, its             *)
(*             current_count                                               *)
(***************************************************************************)
RlProcs == {1, 2}

RlIdle ==
    [limit |-> 1, window |-> 1, time |-> 0, zset |-> {}, admitted |-> << >>,
     checks |-> 0,
     proc |-> [p \in RlProcs |-> [pc |-> "idle", now |-> 0, count |-> 0]]]

NoExecution ==
    [status |-> "none", started_at |-> 0, completed_at |-> 0,
     error |-> << >>, outputs |-> EmptyDict]

InitExecution ==
    /\ inputs = EmptyDict
    /\ initial_state = EmptyDict
    /\ execution = NoExecution
    /\ now = 1
    /\ pc = "none"
    /\ current_step_ids = << >>
    /\ next_step_ids = << >>
    /\ visited = {}
    /\ step_count = 0
    /\ state = EmptyDict
    /\ route_name = None
    /\ step_id = None
    /\ exc = << >>
    /\ events = << >>
    /\ requests = 0
    /\ cancelPc = "idle"
    /\ cancelLog = << >>
    /\ feedbackPc = "idle"
    /\ feedbackLog = << >>
    /\ observers = [o \in ObserverIds |-> NoObserver]
    /\ active_key = FALSE
    /\ delivered = 0
    /\ bc = BcIdle
    /\ sock = NoSock

InitCommon ==
    /\ InitExecution
    /\ rl = RlIdle

Init ==
    /\ flow \in Flows
    /\ InitCommon

(***************************************************************************)
(* kickoff_flow + create_flow_execution: the record is created pending and *)
(* the execute_flow task is queued when async_execution is set; otherwise  *)
(* the record is created running and no task is queued.                    *)
(***************************************************************************)
KickoffFrom(inputChoices, stateChoices) ==
    /\ pc = "none"
    /\ \E in \in inputChoices, init \in stateChoices, async_execution \in BOOLEAN :
        /\ inputs' = in
        /\ initial_state' = init
        /\ execution' = [NoExecution EXCEPT
                            !.status = IF async_execution THEN PENDING ELSE RUNNING,
                            !.started_at = now]
        /\ pc' = IF async_execution THEN "queued" ELSE "not_dispatched"
    /\ now' = now + 1
    /\ UNCHANGED <<flow, current_step_ids, next_step_ids, visited, step_count, state,
                   route_name, step_id, exc, events, clientVars, wsVars>>

Kickoff == KickoffFrom(InputSet, InitialStateSet)

(***************************************************************************)
(* trigger_service.handle_webhook for a flow trigger: the record is created *)
(* by create_flow_execution(async_execution=True, initial_state={}) with    *)
(* the mapped payload as inputs; no task is queued.                         *)
(***************************************************************************)
HandleWebhook ==
    /\ pc = "none"
    /\ \E payload \in InputSet :
        /\ inputs' = payload
        /\ initial_state' = EmptyDict
        /\ execution' = [NoExecution EXCEPT !.status = PENDING, !.started_at = now]
        /\ pc' = "not_dispatched"
    /\ now' = now + 1
    /\ UNCHANGED <<flow, current_step_ids, next_step_ids, visited, step_count, state,
                   route_name, step_id, exc, events, clientVars, wsVars>>

(***************************************************************************)
(* _execute_flow_async, up to the BFS loop.                                *)
(***************************************************************************)
W_SetRunning ==
    /\ pc = "queued"
    /\ execution' = UpdateExecutionStatus(execution, RUNNING, << >>, EmptyDict, now)
    /\ now' = now + 1
    /\ pc' = "w_start_event"
    /\ UNCHANGED <<flow, inputs, initial_state, current_step_ids, next_step_ids, visited,
                   step_count, state, route_name, step_id, exc, events, clientVars, wsVars>>

W_BroadcastStart ==
    /\ pc = "w_start_event"
    /\ events' = Broadcast(events, "start", None, <<"Flow execution started">>)
    /\ pc' = "w_load"
    /\ UNCHANGED <<flow, inputs, initial_state, execution, now, current_step_ids,
                   next_step_ids, visited, step_count, state, route_name, step_id, exc,
                   clientVars, wsVars>>

W_LoadFlow ==
    /\ pc = "w_load"
    /\ events' = Broadcast(events, "flow_loaded", None, << >>)
    /\ state' = initial_state
    /\ IF FindStartStep(flow) = None
       THEN /\ exc' = <<"Flow has no start step">>
            /\ pc' = "w_except"
            /\ UNCHANGED <<current_step_ids, visited, step_count>>
       ELSE /\ current_step_ids' = <<FindStartStep(flow)>>
            /\ visited' = {}
            /\ step_count' = 0
            /\ pc' = "w_loop"
            /\ exc' = exc
    /\ UNCHANGED <<flow, inputs, initial_state, execution, now, next_step_ids,
                   route_name, step_id, clientVars, wsVars>>

(***************************************************************************)
(* The BFS loop: while current_step_ids / for step_id in current_step_ids. *)
(***************************************************************************)
\* variant: the visited test misses the start step
AlreadyVisitedButStart(id, vis) == id \in vis /\ id # "s"

\* if step_id in visited
AlreadyVisited(id, vis) == id \in vis

\* `continue`: the step was visited already, or steps.get(step_id) is None
W_LoopContinue ==
    /\ pc = "w_loop"
    /\ current_step_ids # << >>
    /\ LET id == Head(current_step_ids) IN
        /\ AlreadyVisited(id, visited) \/ id \notin StepIds(flow)
        /\ visited' = visited \cup {id}
    /\ current_step_ids' = Tail(current_step_ids)
    /\ UNCHANGED <<flow, inputs, initial_state, execution, now, pc, next_step_ids,
                   step_count, state, route_name, step_id, exc, events, clientVars, wsVars>>

\* the level is iterated: current_step_ids = next_step_ids, or the loop ends
W_LevelEnd ==
    /\ pc = "w_loop"
    /\ current_step_ids = << >>
    /\ current_step_ids' = next_step_ids
    /\ next_step_ids' = << >>
    /\ pc' = IF next_step_ids = << >> THEN "w_complete_write" ELSE "w_loop"
    /\ UNCHANGED <<flow, inputs, initial_state, execution, now, visited, step_count,
                   state, route_name, step_id, exc, events, clientVars, wsVars>>

\* visited.add, step_count += 1, and the step_start event of _execute_step
W_StepStart ==
    /\ pc = "w_loop"
    /\ current_step_ids # << >>
    /\ LET id == Head(current_step_ids) IN
        /\ ~AlreadyVisited(id, visited)
        /\ id \in StepIds(flow)
        /\ visited' = visited \cup {id}
        /\ step_id' = id
        /\ events' = Broadcast(events, "step_start", id, << >>)
    /\ current_step_ids' = Tail(current_step_ids)
    /\ step_count' = step_count + 1
    /\ route_name' = None
    /\ pc' = "s_body"
    /\ UNCHANGED <<flow, inputs, initial_state, execution, now, next_step_ids, state,
                   exc, clientVars, wsVars>>

(***************************************************************************)
(* _execute_step: the body of a start, end, function, router, listen step. *)
(***************************************************************************)
W_StepBody ==
    /\ pc = "s_body"
    /\ LET step == GetStep(flow, step_id)
           fn == RunFunction(step.code, state)
       IN /\ step.type \in {"start", "end", "function", "router", "listen"}
          /\ state' = CASE step.type = "start" -> Merge(state, inputs)
                        [] step.type = "function" -> fn.state
                        [] OTHER -> state
          /\ route_name' = IF step.type = "router"
                           THEN RouterSelect(step.conditions, step.routes, state)
                           ELSE route_name
          /\ IF step.type = "function" /\ fn.raised
             THEN /\ exc' = fn.error
                  /\ pc' = "w_except"
             ELSE /\ exc' = exc
                  /\ pc' = "s_complete"
    /\ UNCHANGED <<flow, inputs, initial_state, execution, now, current_step_ids,
                   next_step_ids, visited, step_count, step_id, events, clientVars, wsVars>>

\* crew step: _execute_crew_async is called when crew_id is configured
W_CrewStep ==
    /\ pc = "s_body"
    /\ GetStep(flow, step_id).type = "crew"
    /\ pc' = IF Truthy(GetStep(flow, step_id).crew_id) THEN "c_running" ELSE "s_complete"
    /\ UNCHANGED <<flow, inputs, initial_state, execution, now, current_step_ids,
                   next_step_ids, visited, step_count, state, route_name, step_id, exc,
                   events, clientVars, wsVars>>

\* human_feedback step: the human_input_required event ...
W_HumanInputEvent ==
    /\ pc = "s_body"
    /\ GetStep(flow, step_id).type = "human_feedback"
    /\ events' = Broadcast(events, "human_input_required", step_id, << >>)
    /\ pc' = "hf_status"
    /\ UNCHANGED <<flow, inputs, initial_state, execution, now, current_step_ids,
                   next_step_ids, visited, step_count, state, route_name, step_id, exc,
                   clientVars, wsVars>>

\* ... then the status write and the awaiting_human_feedback flag
W_HumanStatus ==
    /\ pc = "hf_status"
    /\ execution' = UpdateExecutionStatus(execution, WAITING_HUMAN, << >>, EmptyDict, now)
    /\ now' = now + 1
    /\ state' = Merge(state, [k \in {"awaiting_human_feedback"} |-> TRUE])
    /\ pc' = "s_complete"
    /\ UNCHANGED <<flow, inputs, initial_state, current_step_ids, next_step_ids, visited,
                   step_count, route_name, step_id, exc, events, clientVars, wsVars>>

(***************************************************************************)
(* _execute_crew_async, called by a crew step with the flow's execution id.*)
(***************************************************************************)
CrewOutput == [raw |-> "crew output"]

CrewSetRunning ==
    /\ pc = "c_running"
    /\ execution' = UpdateExecutionStatus(execution, RUNNING, << >>, EmptyDict, now)
    /\ now' = now + 1
    /\ pc' = "c_start_event"
    /\ UNCHANGED <<flow, inputs, initial_state, current_step_ids, next_step_ids, visited,
                   step_count, state, route_name, step_id, exc, events, clientVars, wsVars>>

CrewStartEvent ==
    /\ pc = "c_start_event"
    /\ events' = Broadcast(events, "start", None, <<"Crew execution started">>)
    /\ pc' = "c_kickoff"
    /\ UNCHANGED <<flow, inputs, initial_state, execution, now, current_step_ids,
                   next_step_ids, visited, step_count, state, route_name, step_id, exc,
                   clientVars, wsVars>>

\* _get_crew_config, the crewai objects and crew.kickoff: the crew may be
\* missing, and the kickoff of the external crew may raise
CrewKickoff ==
    /\ pc = "c_kickoff"
    /\ \/ /\ events' = Broadcast(Broadcast(Broadcast(events,
                            "crew_loaded", None, << >>),
                            "kickoff_started", None, << >>),
                            "kickoff_complete", None, << >>)
          /\ pc' = "c_complete_write"
          /\ exc' = exc
       \/ /\ events' = events
          /\ exc' = <<"Crew not found">>
          /\ pc' = "c_fail_write"
       \/ /\ events' = Broadcast(Broadcast(events,
                            "crew_loaded", None, << >>),
                            "kickoff_started", None, << >>)
          /\ exc' = <<"kickoff failed">>
          /\ pc' = "c_fail_write"
    /\ UNCHANGED <<flow, inputs, initial_state, execution, now, current_step_ids,
                   next_step_ids, visited, step_count, state, route_name, step_id,
                   clientVars, wsVars>>

CrewCompleteWrite ==
    /\ pc = "c_complete_write"
    /\ execution' = UpdateExecutionStatus(execution, COMPLETED, << >>, CrewOutput, now)
    /\ now' = now + 1
    /\ pc' = "c_complete_event"
    /\ UNCHANGED <<flow, inputs, initial_state, current_step_ids, next_step_ids, visited,
                   step_count, state, route_name, step_id, exc, events, clientVars, wsVars>>

\* the complete event, the return, and state["crew_result"] = crew_result
CrewCompleteEvent ==
    /\ pc = "c_complete_event"
    /\ events' = Broadcast(events, "complete", None, <<"Crew execution completed">>)
    /\ state' = Merge(state, [k \in {"crew_result"} |-> CrewOutput])
    /\ pc' = "s_complete"
    /\ UNCHANGED <<flow, inputs, initial_state, execution, now, current_step_ids,
                   next_step_ids, visited, step_count, route_name, step_id, exc,
                   clientVars, wsVars>>

CrewFailWrite ==
    /\ pc = "c_fail_write"
    /\ execution' = UpdateExecutionStatus(execution, FAILED, exc, EmptyDict, now)
    /\ now' = now + 1
    /\ pc' = "c_error_event"
    /\ UNCHANGED <<flow, inputs, initial_state, current_step_ids, next_step_ids, visited,
                   step_count, state, route_name, step_id, exc, events, clientVars, wsVars>>

\* the error event; the exception is raised into _execute_step and on
CrewErrorEvent ==
    /\ pc = "c_error_event"
    /\ events' = Broadcast(events, "error", None, <<"Crew execution failed: ">> \o exc)
    /\ pc' = "w_except"
    /\ UNCHANGED <<flow, inputs, initial_state, execution, now, current_step_ids,
                   next_step_ids, visited, step_count, state, route_name, step_id, exc,
                   clientVars, wsVars>>

(***************************************************************************)
(* End of _execute_step and the rest of the loop body.                     *)
(***************************************************************************)
W_StepComplete ==
    /\ pc = "s_complete"
    /\ events' = Broadcast(events, "step_complete", step_id, << >>)
    /\ pc' = "s_after"
    /\ UNCHANGED <<flow, inputs, initial_state, execution, now, current_step_ids,
                   next_step_ids, visited, step_count, state, route_name, step_id, exc,
                   clientVars, wsVars>>

\* the awaiting_human_feedback check, then _get_next_steps
W_AfterStep ==
    /\ pc = "s_after"
    /\ IF AwaitingHumanFeedback(state)
       THEN /\ pc' = "suspended"
            /\ next_step_ids' = next_step_ids
       ELSE /\ pc' = "w_loop"
            /\ next_step_ids' = next_step_ids \o
                    GetNextSteps(step_id, ConnectionsOf(flow), state, route_name)
    /\ UNCHANGED <<flow, inputs, initial_state, execution, now, current_step_ids, visited,
                   step_count, state, route_name, step_id, exc, events, clientVars, wsVars>>

(***************************************************************************)
(* The end of the run: completed, or the exception handler.                *)
(***************************************************************************)
FlowOutput == [state |-> state, steps_executed |-> step_count]

W_CompleteWrite ==
    /\ pc = "w_complete_write"
    /\ execution' = UpdateExecutionStatus(execution, COMPLETED, << >>, FlowOutput, now)
    /\ now' = now + 1
    /\ pc' = "w_complete_event"
    /\ UNCHANGED <<flow, inputs, initial_state, current_step_ids, next_step_ids, visited,
                   step_count, state, route_name, step_id, exc, events, clientVars, wsVars>>

W_CompleteEvent ==
    /\ pc = "w_complete_event"
    /\ events' = Broadcast(events, "complete", None, <<"Flow execution completed">>)
    /\ pc' = "done"
    /\ UNCHANGED <<flow, inputs, initial_state, execution, now, current_step_ids,
                   next_step_ids, visited, step_count, state, route_name, step_id, exc,
                   clientVars, wsVars>>

W_FailWrite ==
    /\ pc = "w_except"
    /\ execution' = UpdateExecutionStatus(execution, FAILED, exc, EmptyDict, now)
    /\ now' = now + 1
    /\ pc' = "w_error_event"
    /\ UNCHANGED <<flow, inputs, initial_state, current_step_ids, next_step_ids, visited,
                   step_count, state, route_name, step_id, exc, events, clientVars, wsVars>>

\* variant: the message is str(e) alone
ErrorMessageBare(e) == e

\* error_msg = f"Flow execution failed: {str(e)}"
ErrorMessage(e) == <<"Flow execution failed: ">> \o e

\* the error event, then `raise`
W_ErrorEvent ==
    /\ pc = "w_error_event"
    /\ events' = Broadcast(events, "error", None, ErrorMessage(exc))
    /\ pc' = "raised"
    /\ UNCHANGED <<flow, inputs, initial_state, execution, now, current_step_ids,
                   next_step_ids, visited, step_count, state, route_name, step_id, exc,
                   clientVars, wsVars>>

(***************************************************************************)
(* execution_service.cancel_execution: the row is read, checked, and the   *)
(* changed columns are written at commit.                                  *)
(***************************************************************************)
Callers == {"owner", "other"}

\* variant: a run waiting for human input is cancellable too
CancellableOrWaiting(s) == s \in {PENDING, RUNNING, WAITING_HUMAN}

\* the status check of cancel_execution
Cancellable(s) == s \in {PENDING, RUNNING}

CancelRead ==
    /\ status # "none"
    /\ cancelPc = "idle"
    /\ requests < MaxRequests
    /\ requests' = requests + 1
    /\ \E caller \in Callers :
        IF caller # "owner"
        THEN /\ cancelLog' = Append(cancelLog,
                    [caller |-> caller, seen |-> None, ok |-> FALSE])
             /\ cancelPc' = cancelPc
        ELSE IF ~Cancellable(status)
        THEN /\ cancelLog' = Append(cancelLog,
                    [caller |-> caller, seen |-> status, ok |-> FALSE])
             /\ cancelPc' = cancelPc
        ELSE /\ cancelPc' = status
             /\ cancelLog' = cancelLog
    /\ UNCHANGED <<flow, inputs, initial_state, execution, now, workerVars, events,
                   feedbackPc, feedbackLog, wsVars>>

CancelCommit ==
    /\ cancelPc # "idle"
    /\ execution' = [execution EXCEPT !.status = CANCELLED, !.completed_at = now]
    /\ now' = now + 1
    /\ cancelLog' = Append(cancelLog, [caller |-> "owner", seen |-> cancelPc, ok |-> TRUE])
    /\ cancelPc' = "idle"
    /\ UNCHANGED <<flow, inputs, initial_state, workerVars, events, requests,
                   feedbackPc, feedbackLog, wsVars>>

(***************************************************************************)
(* execution_service.submit_human_feedback.                                *)
(***************************************************************************)
\* variant: feedback is accepted for a running execution too
AwaitsFeedbackOrRunning(s) == s \in {WAITING_HUMAN, RUNNING}

\* the status check of submit_human_feedback
AwaitsFeedback(s) == s = WAITING_HUMAN

FeedbackRead ==
    /\ status # "none"
    /\ feedbackPc = "idle"
    /\ requests < MaxRequests
    /\ requests' = requests + 1
    /\ \E caller \in Callers :
        IF caller # "owner"
        THEN /\ feedbackLog' = Append(feedbackLog,
                    [caller |-> caller, seen |-> None, result |-> "error"])
             /\ feedbackPc' = feedbackPc
        ELSE IF ~AwaitsFeedback(status)
        THEN /\ feedbackLog' = Append(feedbackLog,
                    [caller |-> caller, seen |-> status, result |-> "error"])
             /\ feedbackPc' = feedbackPc
        ELSE /\ feedbackPc' = status
             /\ feedbackLog' = feedbackLog
    /\ UNCHANGED <<flow, inputs, initial_state, execution, now, workerVars, events,
                   cancelPc, cancelLog, wsVars>>

FeedbackCommit ==
    /\ feedbackPc # "idle"
    /\ execution' = [execution EXCEPT !.status = RUNNING]
    /\ feedbackLog' = Append(feedbackLog,
            [caller |-> "owner", seen |-> feedbackPc, result |-> "resumed"])
    /\ feedbackPc' = "idle"
    /\ UNCHANGED <<flow, inputs, initial_state, now, workerVars, events, requests,
                   cancelPc, cancelLog, wsVars>>

(***************************************************************************)
(* The cancel_execution worker task of crew_executor.py.                   *)
(***************************************************************************)
CancelTask ==
    /\ status # "none"
    /\ requests < MaxRequests
    /\ requests' = requests + 1
    /\ execution' = UpdateExecutionStatus(execution, CANCELLED, << >>, EmptyDict, now)
    /\ now' = now + 1
    /\ UNCHANGED <<flow, inputs, initial_state, workerVars, events,
                   cancelPc, cancelLog, feedbackPc, feedbackLog, wsVars>>

(***************************************************************************)
(* websocket_execution: connect, the connected confirmation, then          *)
(* subscribe_to_execution forwards the channel until a final event or a    *)
(* failed send; manager.disconnect in the finally clause.                  *)
(***************************************************************************)
\* manager.connect and the confirmation message
WsConnect(o) ==
    /\ status # "none"
    /\ observers[o].st = "none"
    /\ \A other \in 1..(o - 1) : observers[other].st # "none"
    /\ \E local \in BOOLEAN :
        /\ observers' = [observers EXCEPT ![o] =
                Delivered([@ EXCEPT !.st = "connected", !.local = local,
                                    !.registered = local], 0)]
        /\ active_key' = (active_key \/ local)
    /\ UNCHANGED <<flow, inputs, initial_state, execution, now, workerVars, events,
                   clientVars, delivered, bc, sock, rl>>

\* pubsub.subscribe(channel)
WsSubscribe(o) ==
    /\ observers[o].st = "connected"
    /\ observers' = [observers EXCEPT ![o].st = "subscribed"]
    /\ UNCHANGED <<flow, inputs, initial_state, execution, now, workerVars, events,
                   clientVars, active_key, delivered, bc, sock, rl>>

\* the client's connection goes away; the handler notices at its next send
WsBreak(o) ==
    /\ observers[o].st = "subscribed"
    /\ ~observers[o].broken
    /\ observers' = [observers EXCEPT ![o].broken = TRUE]
    /\ UNCHANGED <<flow, inputs, initial_state, execution, now, workerVars, events,
                   clientVars, active_key, delivered, bc, sock, rl>>

\* manager.disconnect(websocket, execution_id) in the manager of the publishing
\* process: discard, and del of the key when the set is empty
Disconnect(obs, o) == [obs EXCEPT ![o].st = "closed", ![o].registered = FALSE]

\* one message of the channel: send_json, break on complete / error /
\* cancelled; a failed send ends the handler too
WsForward(o) ==
    /\ observers[o].st = "subscribed"
    /\ observers[o].queue # << >>
    /\ LET k == Head(observers[o].queue)
           sent == [observers EXCEPT
                        ![o] = Delivered([@ EXCEPT !.queue = Tail(@)], k)]
           ends == \/ observers[o].broken
                   \/ events[k].type \in {"complete", "error", "cancelled"}
           after == IF observers[o].broken THEN Disconnect(observers, o)
                    ELSE IF ends THEN Disconnect(sent, o)
                    ELSE sent
           deleted == /\ ends /\ observers[o].local /\ active_key
                      /\ Registered(after) = {}
       IN /\ observers' = after
          /\ active_key' = (active_key /\ ~deleted)
          /\ bc' = IF deleted /\ bc.pc = "local" THEN [bc EXCEPT !.stale = TRUE] ELSE bc
    /\ UNCHANGED <<flow, inputs, initial_state, execution, now, workerVars, events,
                   clientVars, delivered, sock, rl>>

(***************************************************************************)
(* broadcast_execution_event for the next event of the published stream:   *)
(* publish_event (Redis), then broadcast_to_execution (local connections). *)
(***************************************************************************)
\* redis_client.publish: every subscription of the channel gets the message;
\* then `if execution_id in self.active_connections` and the set iterator
B_Publish ==
    /\ bc.pc = "idle"
    /\ delivered < Len(events)
    /\ observers' = [o \in ObserverIds |->
            IF observers[o].st = "subscribed"
            THEN [observers[o] EXCEPT !.queue = Append(@, delivered + 1)]
            ELSE observers[o]]
    /\ sock' = IF sock.st = "subscribed"
               THEN [sock EXCEPT !.queue = Append(@, delivered + 1)]
               ELSE sock
    /\ IF active_key
       THEN /\ bc' = [BcIdle EXCEPT !.pc = "local",
                                    !.size = Cardinality(Registered(observers))]
            /\ delivered' = delivered
       ELSE /\ bc' = BcIdle
            /\ delivered' = delivered + 1
    /\ UNCHANGED <<flow, inputs, initial_state, execution, now, workerVars, events,
                   clientVars, active_key, rl>>

\* the size of the set object being iterated
IteratedSize == IF bc.stale THEN 0 ELSE Cardinality(Registered(observers))

\* for ws in disconnected: self.active_connections[execution_id].discard(ws)
Prune(obs, failed) ==
    [o \in ObserverIds |->
        IF o \in failed THEN [obs[o] EXCEPT !.registered = FALSE] ELSE obs[o]]

\* one step of `for websocket in self.active_connections[execution_id]`:
\* RuntimeError when the set changed size, else the send to the next socket
\* (a failed send is recorded), else the cleanup after the loop
B_LocalNext ==
    /\ bc.pc = "local"
    /\ IF IteratedSize # bc.size
       THEN \* RuntimeError: Set changed size during iteration, raised into
            \* the caller of broadcast_execution_event
            /\ bc' = BcIdle
            /\ delivered' = delivered + 1
            /\ exc' = <<"Set changed size during iteration">>
            /\ pc' = IF events[delivered + 1].type = "error" THEN "raised" ELSE "w_except"
            /\ observers' = observers
       ELSE IF bc.stale \/ Registered(observers) \ bc.seen = {}
       THEN /\ observers' = Prune(observers, bc.disconnected)
            /\ bc' = BcIdle
            /\ delivered' = delivered + 1
            /\ UNCHANGED <<pc, exc>>
       ELSE /\ \E o \in Registered(observers) \ bc.seen :
                IF observers[o].broken
                THEN /\ bc' = [bc EXCEPT !.seen = @ \cup {o},
                                         !.disconnected = @ \cup {o}]
                     /\ observers' = observers
                ELSE /\ bc' = [bc EXCEPT !.seen = @ \cup {o}]
                     /\ observers' = [observers EXCEPT ![o] =
                            Delivered(@, delivered + 1)]
            /\ UNCHANGED <<pc, exc, delivered>>
    /\ UNCHANGED <<flow, inputs, initial_state, execution, now, current_step_ids,
                   next_step_ids, visited, step_count, state, route_name, step_id,
                   events, clientVars, active_key, sock, rl>>

(***************************************************************************)
(* websocket_crew_kickoff: the message loop of the crew streaming socket.  *)
(* The client stays connected.                                             *)
(***************************************************************************)
\* the token is valid: websocket.accept()
SockAccept ==
    /\ sock.st = "none"
    /\ sock' = [sock EXCEPT !.st = "receive"]
    /\ UNCHANGED <<flow, inputs, initial_state, execution, now, workerVars, events,
                   clientVars, observers, active_key, delivered, bc, rl>>

\* {"type": "kickoff"}: "Crew not found" is answered, or the execution is
\* created pending, execution_created is sent and execute_crew is queued
SockKickoff ==
    /\ sock.st = "receive"
    /\ sock.messages < MaxMessages
    /\ pc = "none"
    /\ \/ /\ sock' = [sock EXCEPT !.messages = @ + 1,
                                   !.answers = Append(@, "error")]
          /\ UNCHANGED <<inputs, execution, now, pc>>
       \/ /\ \E in \in InputSet : inputs' = in
          /\ execution' = [NoExecution EXCEPT !.status = PENDING, !.started_at = now]
          /\ now' = now + 1
          /\ pc' = "c_running"
          /\ sock' = [sock EXCEPT !.messages = @ + 1,
                                   !.answers = Append(@, "execution_created"),
                                   !.st = "dispatched"]
    /\ UNCHANGED <<flow, initial_state, current_step_ids, next_step_ids, visited,
                   step_count, state, route_name, step_id, exc, events, clientVars,
                   observers, active_key, delivered, bc, rl>>

\* manager.subscribe_to_execution: pubsub.subscribe(channel)
SockSubscribe ==
    /\ sock.st = "dispatched"
    /\ sock' = [sock EXCEPT !.st = "subscribed"]
    /\ UNCHANGED <<flow, inputs, initial_state, execution, now, workerVars, events,
                   clientVars, observers, active_key, delivered, bc, rl>>

\* one message of the channel: send_json; after complete / error / cancelled
\* the subscription is closed and the handler is back in receive_json
SockForward ==
    /\ sock.st = "subscribed"
    /\ sock.queue # << >>
    /\ LET k == Head(sock.queue) IN
        sock' = IF events[k].type \in {"complete", "error", "cancelled"}
                THEN [sock EXCEPT !.received = Append(@, k), !.queue = << >>,
                                  !.st = "receive"]
                ELSE [sock EXCEPT !.received = Append(@, k), !.queue = Tail(@)]
    /\ UNCHANGED <<flow, inputs, initial_state, execution, now, workerVars, events,
                   clientVars, observers, active_key, delivered, bc, rl>>

\* {"type": "cancel"}: without execution_id nothing is done; else
\* cancel_execution reads the row for the user of the token
SockCancelRead ==
    /\ sock.st = "receive"
    /\ sock.messages < MaxMessages
    /\ \/ sock' = [sock EXCEPT !.messages = @ + 1]
       \/ /\ status # "none"
          /\ \E caller \in Callers :
                sock' = [sock EXCEPT !.messages = @ + 1,
                                     !.st = "cancelling",
                                     !.caller = caller,
                                     !.seen = IF caller = "owner" THEN status ELSE None]
    /\ UNCHANGED <<flow, inputs, initial_state, execution, now, workerVars, events,
                   clientVars, observers, active_key, delivered, bc, rl>>

\* cancel_execution returns (committing CANCELLED when the status read was
\* pending or running); its result is not used: "cancelled" is sent
SockCancelReply ==
    /\ sock.st = "cancelling"
    /\ LET ok == sock.caller = "owner" /\ Cancellable(sock.seen) IN
        /\ execution' = IF ok
                        THEN [execution EXCEPT !.status = CANCELLED, !.completed_at = now]
                        ELSE execution
        /\ now' = IF ok THEN now + 1 ELSE now
        /\ cancelLog' = Append(cancelLog,
                [caller |-> sock.caller, seen |-> sock.seen, ok |-> ok])
    /\ sock' = [sock EXCEPT !.st = "receive", !.answers = Append(@, "cancelled")]
    /\ UNCHANGED <<flow, inputs, initial_state, workerVars, events, requests, cancelPc,
                   feedbackPc, feedbackLog, observers, active_key, delivered, bc, rl>>

(***************************************************************************)
(* RateLimiter.is_rate_limited(key, limit, window_seconds): each Redis     *)
(* command is awaited, so the calls of concurrent requests interleave      *)
(* between the commands.  redis.expire removes the key window_seconds      *)
(* after the last zadd, when every score is old enough for                 *)
(* zremrangebyscore to remove it: it has no effect of its own.             *)
(***************************************************************************)
\* the clock advances
RlTick ==
    /\ rl.time < MaxTime
    /\ rl' = [rl EXCEPT !.time = @ + 1]
    /\ UNCHANGED <<flow, inputs, initial_state, execution, now, workerVars, events,
                   clientVars, observers, active_key, delivered, bc, sock>>

\* now = time.time(); zremrangebyscore(redis_key, 0, now - window_seconds)
RlBegin(p) ==
    /\ rl.proc[p].pc = "idle"
    /\ rl.checks < MaxChecks
    /\ rl' = [rl EXCEPT
                !.checks = @ + 1,
                !.zset = {sc \in @ : ~(0 <= sc /\ sc <= rl.time - rl.window)},
                !.proc[p] = [pc |-> "zcard", now |-> rl.time, count |-> 0]]
    /\ UNCHANGED <<flow, inputs, initial_state, execution, now, workerVars, events,
                   clientVars, observers, active_key, delivered, bc, sock>>

\* current_count = zcard(redis_key); if current_count >= limit: return True, ...
RlCount(p) ==
    /\ rl.proc[p].pc = "zcard"
    /\ LET current_count == Cardinality(rl.zset) IN
        rl' = [rl EXCEPT
                !.proc[p].count = current_count,
                !.proc[p].pc = IF current_count >= rl.limit THEN "idle" ELSE "zadd"]
    /\ UNCHANGED <<flow, inputs, initial_state, execution, now, workerVars, events,
                   clientVars, observers, active_key, delivered, bc, sock>>

\* zadd(redis_key, {str(now): now}); return False, ...
RlAdd(p) ==
    /\ rl.proc[p].pc = "zadd"
    /\ rl' = [rl EXCEPT
                !.zset = @ \cup {rl.proc[p].now},
                !.admitted = Append(@, rl.proc[p].now),
                !.proc[p].pc = "idle"]
    /\ UNCHANGED <<flow, inputs, initial_state, execution, now, workerVars, events,
                   clientVars, observers, active_key, delivered, bc, sock>>

(***************************************************************************)
(* The end of _execute_crew_async when it is the body of the execute_crew  *)
(* task: the complete event and the return, or the error event and raise.  *)
(***************************************************************************)
TaskCompleteEvent ==
    /\ pc = "c_complete_event"
    /\ events' = Broadcast(events, "complete", None, <<"Crew execution completed">>)
    /\ pc' = "done"
    /\ UNCHANGED <<flow, inputs, initial_state, execution, now, current_step_ids,
                   next_step_ids, visited, step_count, state, route_name, step_id, exc,
                   clientVars, wsVars>>

TaskErrorEvent ==
    /\ pc = "c_error_event"
    /\ events' = Broadcast(events, "error", None, <<"Crew execution failed: ">> \o exc)
    /\ pc' = "raised"
    /\ UNCHANGED <<flow, inputs, initial_state, execution, now, current_step_ids,
                   next_step_ids, visited, step_count, state, route_name, step_id, exc,
                   clientVars, wsVars>>

(***************************************************************************)
(* The specification: the worker and the client requests interleave.       *)
(***************************************************************************)
Next ==
    \/ Kickoff \/ HandleWebhook
    \/ W_SetRunning \/ W_BroadcastStart \/ W_LoadFlow
    \/ W_LoopContinue \/ W_LevelEnd \/ W_StepStart
    \/ W_StepBody \/ W_CrewStep \/ W_HumanInputEvent \/ W_HumanStatus
    \/ CrewSetRunning \/ CrewStartEvent \/ CrewKickoff
    \/ CrewCompleteWrite \/ CrewCompleteEvent \/ CrewFailWrite \/ CrewErrorEvent
    \/ W_StepComplete \/ W_AfterStep
    \/ W_CompleteWrite \/ W_CompleteEvent \/ W_FailWrite \/ W_ErrorEvent
    \/ CancelRead \/ CancelCommit \/ FeedbackRead \/ FeedbackCommit \/ CancelTask

Spec == Init /\ [][Next]_vars

(***************************************************************************)
(* Spec with the scheduling the code relies on: the worker process keeps   *)
(* running its task, and a request that has read the row commits.  Clients *)
(* are not obliged to make requests.                                       *)
(***************************************************************************)
WorkerStep ==
    \/ W_SetRunning \/ W_BroadcastStart \/ W_LoadFlow
    \/ W_LoopContinue \/ W_LevelEnd \/ W_StepStart
    \/ W_StepBody \/ W_CrewStep \/ W_HumanInputEvent \/ W_HumanStatus
    \/ CrewSetRunning \/ CrewStartEvent \/ CrewKickoff
    \/ CrewCompleteWrite \/ CrewCompleteEvent \/ CrewFailWrite \/ CrewErrorEvent
    \/ W_StepComplete \/ W_AfterStep
    \/ W_CompleteWrite \/ W_CompleteEvent \/ W_FailWrite \/ W_ErrorEvent

FairSpec ==
    /\ Spec
    /\ WF_vars(WorkerStep)
    /\ WF_vars(CancelCommit)
    /\ WF_vars(FeedbackCommit)

(***************************************************************************)
(* GraphSpec: the interpreter alone, on every graph of three steps and at  *)
(* most MaxConnections connections (cycles and self-loops included).       *)
(***************************************************************************)
\* all sequences over S of length at most n
SeqsUpTo(S, n) == UNION {[1..k -> S] : k \in 0..n}

GraphStepIds == {"s", "a", "b"}

GraphFlows ==
    {Flow(<<Step("s", "start"), Step("a", "listen"), Step("b", "end")>>, cs) :
        cs \in SeqsUpTo({Conn(x, y) : x \in GraphStepIds, y \in GraphStepIds},
                        MaxConnections)}

InitGraph ==
    /\ flow \in GraphFlows
    /\ InitCommon

NextGraph ==
    \/ Kickoff
    \/ W_SetRunning \/ W_BroadcastStart \/ W_LoadFlow
    \/ W_LoopContinue \/ W_LevelEnd \/ W_StepStart
    \/ W_StepBody \/ W_StepComplete \/ W_AfterStep
    \/ W_CompleteWrite \/ W_CompleteEvent

GraphSpec == InitGraph /\ [][NextGraph]_vars

\* the worker process keeps running the task: each step of it that is
\* enabled is eventually taken
FairGraphSpec == GraphSpec /\ WF_vars(NextGraph)

(***************************************************************************)
(* RouterSpec: the interpreter alone, on the router flow with every router *)
(* configuration of at most MaxConditions (condition, route) pairs.        *)
(***************************************************************************)
RouterConditions ==
    {Cond(e, r) : e \in {"True", "state['x'] > 5", "1/0"}, r \in {"high", "low", Absent}}

RouterRoutes == {<< >>, <<"low">>, <<"high", "low">>}

RouterFlows ==
    {FlowRouter(cs, rs) : cs \in SeqsUpTo(RouterConditions, MaxConditions),
                          rs \in RouterRoutes}

InitRouter ==
    /\ flow \in RouterFlows
    /\ InitCommon

NextRouter ==
    \/ Kickoff
    \/ W_SetRunning \/ W_BroadcastStart \/ W_LoadFlow
    \/ W_LoopContinue \/ W_LevelEnd \/ W_StepStart
    \/ W_StepBody \/ W_CrewStep
    \/ CrewSetRunning \/ CrewStartEvent \/ CrewKickoff
    \/ CrewCompleteWrite \/ CrewCompleteEvent \/ CrewFailWrite \/ CrewErrorEvent
    \/ W_StepComplete \/ W_AfterStep
    \/ W_CompleteWrite \/ W_CompleteEvent \/ W_FailWrite \/ W_ErrorEvent

RouterSpec == InitRouter /\ [][NextRouter]_vars

(***************************************************************************)
(* WorkerSpec: the interpreter alone (no client request), on the flows of  *)
(* Spec and on the flows with two conditional connections; the kickoff may *)
(* carry a non-empty initial_state.                                        *)
(***************************************************************************)
KickoffWithState ==
    KickoffFrom(InputSet, InitialStateSet \cup {[k \in {"x"} |-> 7]})

CondFlows == {FlowCond(e1, e2) : e1 \in Expressions, e2 \in Expressions}

InitWorker ==
    /\ flow \in Flows \cup CondFlows
    /\ InitCommon

NextWorker == KickoffWithState \/ HandleWebhook \/ WorkerStep

WorkerSpec == InitWorker /\ [][NextWorker]_vars

\* the worker process keeps running a task it has taken from the queue
FairWorkerSpec == WorkerSpec /\ WF_vars(WorkerStep)

(***************************************************************************)
(* InterpreterSpec: the interpreter alone on flows with several crew       *)
(* steps, without start step, with an and-join and with function steps     *)
(* that mutate their argument; the inputs and the initial state of the     *)
(* kickoff may carry the key awaiting_human_feedback.                      *)
(***************************************************************************)
FlagDict == [k \in {"awaiting_human_feedback"} |-> TRUE]

InterpreterFlows ==
    {FlowSimple, FlowHuman, FlowTwoCrews, FlowNoStart, FlowJoin}
        \cup {FlowFunction(c) : c \in {"ret_x10", "raise", "mutate", "ret_flag"}}

InitInterpreter ==
    /\ flow \in InterpreterFlows
    /\ InitCommon

KickoffAnyKeys ==
    KickoffFrom({EmptyDict, [k \in {"x"} |-> 1], FlagDict}, {EmptyDict, FlagDict})

NextInterpreter == KickoffAnyKeys \/ WorkerStep

InterpreterSpec == InitInterpreter /\ [][NextInterpreter]_vars

\* the worker process keeps running a task it has taken from the queue
FairInterpreterSpec == InterpreterSpec /\ WF_vars(WorkerStep)

(***************************************************************************)
(* BroadcastSpec: the run of a flow that is a start step alone, queued by  *)
(* an async kickoff with empty inputs, its events delivered to at most     *)
(* MaxObservers websocket clients.  The worker is inside                   *)
(* broadcast_execution_event until the event it published is delivered.    *)
(***************************************************************************)
InitBroadcast ==
    /\ flow = FlowStartOnly
    /\ InitCommon

\* the steps of _execute_flow_async that a flow without other steps takes
SimpleWorkerStep ==
    \/ W_SetRunning \/ W_BroadcastStart \/ W_LoadFlow
    \/ W_LevelEnd \/ W_StepStart \/ W_StepBody \/ W_StepComplete \/ W_AfterStep
    \/ W_CompleteWrite \/ W_CompleteEvent \/ W_FailWrite \/ W_ErrorEvent

\* kickoff_flow with async_execution and empty inputs
KickoffAsync ==
    /\ Kickoff
    /\ pc' = "queued"
    /\ inputs' = EmptyDict
    /\ initial_state' = EmptyDict

NextBroadcast ==
    \/ KickoffAsync
    \/ (bc.pc = "idle" /\ delivered = Len(events) /\ SimpleWorkerStep)
    \/ B_Publish \/ B_LocalNext
    \/ \E o \in ObserverIds :
            WsConnect(o) \/ WsSubscribe(o) \/ WsBreak(o) \/ WsForward(o)

BroadcastSpec == InitBroadcast /\ [][NextBroadcast]_vars

(***************************************************************************)
(* RateSpec: the calls of is_rate_limited for one key, by two concurrent   *)
(* requests, at most MaxChecks calls while the clock goes from 0 to        *)
(* MaxTime; every limit and window of RlLimits and RlWindows.              *)
(***************************************************************************)
RlLimits == {1, 2}

RlWindows == {1, 2}

InitRate ==
    /\ flow = FlowStartOnly
    /\ InitExecution
    /\ rl \in {[RlIdle EXCEPT !.limit = l, !.window = w] : l \in RlLimits, w \in RlWindows}

NextRate ==
    \/ RlTick
    \/ \E p \in RlProcs : RlBegin(p) \/ RlCount(p) \/ RlAdd(p)

RateSpec == InitRate /\ [][NextRate]_vars

(***************************************************************************)
(* SocketSpec: one crew streaming socket.  Its client starts a crew run    *)
(* and sends cancel messages, at most MaxMessages messages; the execution  *)
(* may also be one that a webhook created.  The execute_crew task runs in  *)
(* the worker process and is inside broadcast_execution_event until the    *)
(* event it published is in the channel.                                   *)
(***************************************************************************)
\* the steps of the execute_crew task
TaskStep ==
    /\ bc.pc = "idle"
    /\ delivered = Len(events)
    /\ \/ CrewSetRunning \/ CrewStartEvent \/ CrewKickoff
       \/ CrewCompleteWrite \/ TaskCompleteEvent \/ CrewFailWrite \/ TaskErrorEvent

NextSocket ==
    \/ HandleWebhook
    \/ SockAccept \/ SockKickoff \/ SockSubscribe \/ SockForward
    \/ SockCancelRead \/ SockCancelReply
    \/ TaskStep
    \/ B_Publish

SocketSpec == InitBroadcast /\ [][NextSocket]_vars

\* the worker runs its task, Redis delivers what was published, and the
\* handler of the socket keeps running
FairSocketSpec ==
    /\ SocketSpec
    /\ WF_vars(TaskStep)
    /\ WF_vars(B_Publish)
    /\ WF_vars(SockSubscribe)
    /\ WF_vars(SockForward)

(***************************************************************************)
(* Properties.                                                             *)
(***************************************************************************)
StepType(id) == GetStep(flow, id).type

Last(seq) == seq[Len(seq)]

\* C1: once the status is completed, failed or cancelled, no operation
\* changes it (no worker write overwrites a terminal status).
TerminalStatusFinal ==
    [][(status \in TerminalStatus) => (status' = status)]_vars

\* C2: cancel_execution by the owner returns success and sets the status to
\* cancelled when the status it reads is pending or running; for every other
\* status it returns failure and leaves status and completed_at unchanged.
CancelContract ==
    [][cancelLog' # cancelLog =>
        LET r == Last(cancelLog') IN
        r.caller = "owner" =>
            /\ r.ok <=> r.seen \in {PENDING, RUNNING}
            /\ r.ok => status' = CANCELLED
            /\ ~r.ok => /\ r.seen = status
                        /\ execution'.status = execution.status
                        /\ execution'.completed_at = execution.completed_at]_vars

\* a cancel was accepted, and a later cancel of the cancelled execution was rejected
CancelContractWitness ==
    /\ Len(cancelLog) = 2
    /\ cancelLog[1].ok
    /\ ~cancelLog[2].ok /\ cancelLog[2].seen = CANCELLED
    /\ status = CANCELLED

\* C3: submit_human_feedback by the owner sets the status to running and
\* reports resumed only if the status it reads is waiting_human; for any
\* other status it returns an error and leaves the status unchanged.
FeedbackContract ==
    [][feedbackLog' # feedbackLog =>
        LET r == Last(feedbackLog') IN
        r.caller = "owner" =>
            /\ r.result = "resumed" <=> r.seen = WAITING_HUMAN
            /\ r.result = "resumed" => status' = RUNNING
            /\ r.result # "resumed" => /\ r.result = "error"
                                       /\ r.seen = status
                                       /\ status' = status]_vars

\* feedback was accepted, and a later feedback for the running execution was rejected
FeedbackContractWitness ==
    /\ Len(feedbackLog) = 2
    /\ feedbackLog[1].result = "resumed"
    /\ feedbackLog[2].result = "error" /\ feedbackLog[2].seen = RUNNING
    /\ status = RUNNING

\* C4: a human_feedback step sets the status to waiting_human and the
\* traversal halts: no step starts after it in that invocation, the worker
\* never reaches the completed write, and waiting_human changes to running
\* only by a feedback submission that read waiting_human.
HumanFeedbackLast ==
    \A i \in 1..Len(Executed) :
        StepType(Executed[i]) = "human_feedback" => i = Len(Executed)

HumanFeedbackHalts ==
    /\ []HumanFeedbackLast
    /\ [](\A i \in 1..Len(Executed) :
            StepType(Executed[i]) = "human_feedback" =>
                pc \in {"s_body", "hf_status", "s_complete", "s_after", "suspended"})
    /\ [][pc = "hf_status" /\ pc' # pc => status' = WAITING_HUMAN]_vars
    /\ [][status = WAITING_HUMAN /\ status' = RUNNING =>
            feedbackLog' = Append(feedbackLog,
                [caller |-> "owner", seen |-> WAITING_HUMAN, result |-> "resumed"])]_vars

\* the run is suspended after the human_feedback step, its sibling of the same
\* level was not executed, and a feedback submission has set the status to running
HumanFeedbackWitness ==
    /\ pc = "suspended"
    /\ StepType(Last(Executed)) = "human_feedback"
    /\ current_step_ids # << >>
    /\ status = RUNNING
    /\ Len(feedbackLog) = 1 /\ feedbackLog[1].result = "resumed"

\* C5: on every flow graph, cycles and self-loops included, each step is
\* executed at most once and a queued run reaches the end of the interpreter.
EachStepOnce ==
    \A i, j \in 1..Len(Executed) : i # j => Executed[i] # Executed[j]

StepsOnceAndTerminates ==
    /\ []EachStepOnce
    /\ (pc = "queued") ~> (pc \in {"done", "raised", "suspended"})

\* a run on a cyclic graph (s -> a -> b -> s) has ended with every step executed once
CycleWitness ==
    /\ pc = "done"
    /\ flow.connections = <<Conn("s", "a"), Conn("a", "b"), Conn("b", "s")>>
    /\ Executed = <<"s", "a", "b">>

\* C6: once a cancel was accepted and the status is cancelled while the flow is
\* being traversed, the worker starts no further step of the flow.
CancelStopsTraversal ==
    [][(/\ status = CANCELLED
        /\ \E i \in 1..Len(cancelLog) : cancelLog[i].ok
        /\ Executed # << >>)
        => Len(Executed') = Len(Executed)]_vars

\* C7: when the code of a function step raises, the status is set to failed,
\* an error event with a non-empty message is published, and no further step
\* of the run is executed.
FunctionRaised ==
    /\ pc \in {"w_except", "w_error_event", "raised"}
    /\ step_id \in StepIds(flow)
    /\ StepType(step_id) = "function"

FunctionFailureFails ==
    /\ [](FunctionRaised => Last(Executed) = step_id)
    /\ [](FunctionRaised /\ pc = "raised" =>
            /\ Last(events).type = "error"
            /\ Len(Last(events).message) > 0)
    /\ [][FunctionRaised /\ pc = "w_except" /\ pc' # pc => status' = FAILED]_vars
    /\ [][pc = "raised" => pc' = "raised"]_vars

\* a function step raised an exception whose text is empty, and the run has failed
FunctionFailureWitness ==
    /\ FunctionRaised
    /\ pc = "raised"
    /\ exc = << >>
    /\ status = FAILED
    /\ Last(events).type = "error"

\* C8: the router selects the route of the first condition, in declaration
\* order, that is truthy; a later truthy condition does not determine it.
RouterDone ==
    /\ pc \in {"s_complete", "s_after"}
    /\ step_id \in StepIds(flow)
    /\ StepType(step_id) = "router"

RouterFirstTruthy ==
    RouterDone =>
        LET r == GetStep(flow, step_id)
            truthy(i) == Eval(CondExpr(r.conditions[i]), state) = "truthy"
            route(i) == CondRoute(r.conditions[i], i, r.routes)
        IN \A i \in 1..Len(r.conditions) :
            (/\ truthy(i)
             /\ \A j \in 1..(i - 1) : ~truthy(j)
             /\ Truthy(route(i)))
                => route_name = route(i)

\* two conditions are truthy, with different routes, and the first one's was selected
RouterFirstTruthyWitness ==
    /\ RouterDone
    /\ GetStep(flow, step_id).conditions = <<Cond("True", "high"), Cond("True", "low")>>
    /\ route_name = "high"

\* C9: when no condition of a router is truthy, the default route is selected
\* if one is configured; otherwise the router step fails: no successor of the
\* router is executed and the run does not complete.
RouterNoMatchPolicy ==
    LET r == GetStep(flow, "router")
        st == Merge(initial_state, inputs)
        noMatch == \A i \in 1..Len(r.conditions) :
                        Eval(CondExpr(r.conditions[i]), st) # "truthy"
    IN (/\ "router" \in StepIds(flow)
        /\ "router" \in Range(Executed)
        /\ r.conditions # << >>
        /\ noMatch) =>
        IF r.routes # << >>
        THEN (RouterDone => route_name = Last(r.routes))
        ELSE /\ pc \notin {"s_complete", "s_after", "w_loop", "w_complete_write",
                           "w_complete_event", "done"}
             /\ "crewA" \notin Range(Executed)
             /\ "crewB" \notin Range(Executed)

\* C10: after the router selected route R, the next steps taken from its
\* route-named connections are exactly the targets of those named R; the
\* scenario flow (x > 5 -> high -> crewA, default low -> crewB) executes
\* exactly one of crewA and crewB, then end, and ends completed.
RouteTargets ==
    {c.target : c \in {conn \in Range(flow.connections) :
                        /\ conn.source = "router"
                        /\ Truthy(conn.route_name)
                        /\ conn.route_name = route_name}}

EventsOfType(type) ==
    LET is(e) == e.type = type IN SelectSeq(events, is)

CompletedOnlyAtEnd ==
    /\ [][status = COMPLETED => Len(Executed') = Len(Executed)]_vars
    /\ [](Len(EventsOfType("complete")) <= 1)
    /\ [](\A i, j \in 1..Len(events) :
            (events[i].type = "complete" /\ events[j].type = "step_complete") => j < i)

\* C13: a failing run sets the status to failed exactly once (no write follows
\* the one that set failed) and publishes exactly one error event.
SingleFailureOutcome ==
    /\ [][status = FAILED => execution' = execution]_vars
    /\ [](Len(EventsOfType("error")) <= 1)
    /\ [](pc = "raised" => (status = FAILED /\ Len(EventsOfType("error")) = 1))

\* C14: a failure inside a flow run ends in _execute_flow_async: the exception
\* is never raised into the execute_flow task.
FailureAbsorbed == pc # "raised"

\* C15: a conditional connection whose condition raises is not taken, the
\* other connections of the step are still evaluated (their targets are
\* taken when unconditional or truthy), and the run does not fail.
RaisingConnectionSkipped ==
    flow \in CondFlows =>
        /\ pc \notin {"w_except", "w_error_event", "raised"}
        /\ status # FAILED
        /\ (pc = "w_loop" /\ step_id = "start") =>
            \A i \in 1..Len(flow.connections) :
                LET c == flow.connections[i]
                    taken == c.target \in Range(current_step_ids \o next_step_ids)
                IN c.source = "start" =>
                    /\ (Truthy(c.condition) /\ Eval(c.condition, state) = "raise")
                            => ~taken
                    /\ (~Truthy(c.condition) \/ Eval(c.condition, state) = "truthy")
                            => taken

\* the first connection of start raised (ZeroDivisionError), the second one was
\* taken, and the run completed without the target of the first
RaisingConnectionWitness ==
    /\ flow = FlowCond("1/0", "True")
    /\ pc = "done"
    /\ Executed = <<"start", "b", "end">>
    /\ status = COMPLETED

\* the event type that reports a terminal status
FinalEventType(s) ==
    CASE s = COMPLETED -> "complete"
      [] s = FAILED -> "error"
      [] s = CANCELLED -> "cancelled"

\* C19: whenever an execution that a worker runs has a terminal status, the
\* matching final event (complete, error, cancelled) is eventually in the
\* published stream; in particular a cancelled execution gets a cancelled
\* event.
TerminalEventPublished ==
    /\ \A s \in {COMPLETED, FAILED} :
        (status = s /\ pc # "not_dispatched")
            ~> (EventsOfType(FinalEventType(s)) # << >>)
    /\ (/\ status = CANCELLED
        /\ pc # "not_dispatched"
        /\ \E i \in 1..Len(cancelLog) : cancelLog[i].ok)
            ~> (EventsOfType(FinalEventType(CANCELLED)) # << >>)

\* C20: every execution record created by a kickoff or a webhook is handed to
\* a worker and, with a fair worker, leaves pending/running for completed,
\* failed, cancelled or waiting_human.
EveryExecutionRuns ==
    /\ [](pc # "not_dispatched")
    /\ (status \in {PENDING, RUNNING}) ~>
            (status \in {COMPLETED, FAILED, CANCELLED, WAITING_HUMAN})

\* send_json has delivered a message to observer o in this step
Delivery(o) ==
    \/ observers'[o].last # observers[o].last
    \/ observers'[o].copies # observers[o].copies

FinalEventTypes == {"complete", "error", "cancelled"}

LifecycleEdges ==
    {<<PENDING, RUNNING>>, <<PENDING, CANCELLED>>,
     <<RUNNING, COMPLETED>>, <<RUNNING, FAILED>>, <<RUNNING, CANCELLED>>,
     <<RUNNING, WAITING_HUMAN>>, <<WAITING_HUMAN, RUNNING>>}

\* C21: every change of the status of an execution follows an edge of the
\* lifecycle machine (pending -> running | cancelled, running -> completed |
\* failed | cancelled | waiting_human, waiting_human -> running).
StatusFollowsLifecycle ==
    [][(status # "none" /\ status' # status) =>
            (<<status, status'>> \in LifecycleEdges)]_vars

\* C22: the interpreter returns suspended only right after a human_feedback
\* step, whatever the inputs, the initial state and the step results are,
\* and the status is then waiting_human.
SuspendsOnlyAtHumanFeedback ==
    pc = "suspended" =>
        /\ StepType(step_id) = "human_feedback"
        /\ status = WAITING_HUMAN

\* C23: when a human_input_required event is published the status is
\* already waiting_human, so a feedback submission that the owner makes in
\* reaction to the event (before any other client request) is not rejected.
HumanEventAfterStatus ==
    /\ [][EventsOfType("human_input_required")' # EventsOfType("human_input_required")
            => status' = WAITING_HUMAN]_vars
    /\ [][(/\ EventsOfType("human_input_required") # << >>
           /\ requests = 0
           /\ feedbackLog' # feedbackLog
           /\ Last(feedbackLog').caller = "owner")
            => Last(feedbackLog').result # "error"]_vars

\* C24: a function step changes the state of the run only by merging the
\* map that the function returns: after the step the state is the state
\* before it with that map merged, and it is the state before it when the
\* function returns no map or raises.
FunctionStepFrame ==
    \A code \in FunctionCodes :
        (flow = FlowFunction(code) /\ step_id = "fn") =>
            LET before == Merge(initial_state, inputs)
                r == UserFunction(code, before)
            IN /\ pc \in {"s_complete", "s_after"} =>
                    state = IF r.isdict THEN Merge(before, r.ret) ELSE before
               /\ pc \in {"w_except", "w_error_event", "raised"} => state = before

\* C25: the run of a flow without start step never starts: no step is
\* executed, the status never becomes running, no start event is published,
\* and the execution ends failed.
NoStartNeverRuns ==
    /\ []((flow = FlowNoStart /\ pc # "not_dispatched") =>
            /\ Executed = << >>
            /\ status # RUNNING
            /\ EventsOfType("start") = << >>)
    /\ (flow = FlowNoStart /\ pc = "queued") ~> (status = FAILED)

\* C28: a step that is the target of connections of type and is executed
\* only after every source step of those connections has been executed.
AndJoinWaits ==
    \A i \in 1..Len(Executed) :
        \A c \in Range(flow.connections) :
            (c.type = "and" /\ c.target = Executed[i]) =>
                \E j \in 1..(i - 1) : Executed[j] = c.source

\* a feedback submission has been accepted
FeedbackAccepted ==
    \E i \in 1..Len(feedbackLog) : feedbackLog[i].result = "resumed"

\* C29: after a feedback submission was accepted the run continues: a step
\* after the human_feedback step is eventually executed and the execution
\* eventually is completed, failed or cancelled.
FeedbackResumesRun ==
    /\ FeedbackAccepted ~>
            (Executed # << >> /\ StepType(Last(Executed)) # "human_feedback")
    /\ FeedbackAccepted ~> (status \in TerminalStatus)

\* C26: on the crew streaming socket a cancel message is answered with
\* cancelled only if the cancel was accepted: cancel_execution returned
\* success and the status became cancelled.
CancelAnswerTruthful ==
    [][(sock'.answers # sock.answers /\ Last(sock'.answers) = "cancelled") =>
            /\ Last(cancelLog').ok
            /\ status' = CANCELLED]_vars

\* C30: the client of the crew streaming socket receives every event of the
\* run it started: what it has received is the published stream from its
\* first event on, without a gap, and when the task has ended the client
\* eventually has all the events, the terminal one included.
SocketReceivesAll ==
    /\ [](sock.received = [i \in 1..Len(sock.received) |-> i])
    /\ (pc \in {"done", "raised"}) ~> (Len(sock.received) = Len(events))

\* the admitted calls whose timestamp lies in the window that ends at t
AdmittedInWindow(t) ==
    {i \in 1..Len(rl.admitted) :
        rl.admitted[i] > t - rl.window /\ rl.admitted[i] <= t}

\* C27: is_rate_limited admits at most `limit` requests whose timestamps lie
\* within any one window, also when requests for the key are checked
\* concurrently.
AdmitsAtMostLimit ==
    \A t \in 0..MaxTime : Cardinality(AdmittedInWindow(t)) <= rl.limit

====
